---- MODULE Spec2Model ----
(***************************************************************************)
(* draw_networkx_edges (src/draw_networkx_edges_arrows.py) as a state      *)
(* machine: one call of the function, stepped through colour validation,   *)
(* the edge collection, the first pass over edge_pos (shaft ends, angles,  *)
(* lengths, orthogonal slopes), the second pass (wing vertices), the       *)
(* a_verts comprehension, the arrow collection and the view update.        *)
(*                                                                         *)
(* Numbers.  The code computes in IEEE doubles (numpy.float64).  Here a    *)
(* number is an exact fraction <<n, d>> in lowest terms with d > 0, and    *)
(* d = 0 encodes the non-finite doubles numpy produces instead of raising: *)
(* <<1,0>> = +inf, <<-1,0>> = -inf, <<0,0>> = nan.  Rounding error of the  *)
(* doubles is not represented.  Edge endpoints are drawn from integer      *)
(* points whose distances are integers, so numpy.sqrt of the squared       *)
(* length is exact.  An angle (numpy.arctan2) is kept as the primitive     *)
(* direction vector it denotes; cos and sin are read from that vector.     *)
(* numpy.sqrt of the wing radicand is in general irrational and is kept    *)
(* as its operands (see ArrowWidth).                                      *)
(***************************************************************************)
EXTENDS Integers, Sequences, FiniteSets, TLC

\* ------------------------------------------------------------------ bounds
MaxEdges == 3
MaxWidths == 2

\* --------------------------------------------------------------- fractions
Abs(n) == IF n < 0 THEN -n ELSE n

Sgn(n) == IF n < 0 THEN -1 ELSE IF n > 0 THEN 1 ELSE 0

RECURSIVE GCD(_, _)
GCD(a, b) == IF b = 0 THEN a ELSE GCD(b, a % b)

\* n/d as a double: lowest terms, positive denominator; x/0 is +-inf or nan.
Norm(n, d) ==
    IF d = 0 THEN <<Sgn(n), 0>>
    ELSE LET g == GCD(Abs(n), Abs(d))
             s == Sgn(d)
         IN <<(s * n) \div g, (s * d) \div g>>

Num(n) == <<n, 1>>

NaN == <<0, 0>>

IsFinite(a) == a[2] # 0

RNeg(a) == <<-a[1], a[2]>>

RAdd(a, b) ==
    IF IsFinite(a) /\ IsFinite(b) THEN Norm(a[1] * b[2] + b[1] * a[2], a[2] * b[2])
    ELSE IF IsFinite(b) THEN a
    ELSE IF IsFinite(a) THEN b
    ELSE IF a = b THEN a ELSE NaN

RSub(a, b) == RAdd(a, RNeg(b))

RMul(a, b) == Norm(a[1] * b[1], a[2] * b[2])

RDiv(a, b) ==
    IF IsFinite(b) THEN Norm(a[1] * b[2], a[2] * b[1])
    ELSE IF IsFinite(a) /\ b # NaN THEN Num(0) ELSE NaN

\* a < b on doubles: every comparison with nan is false.
RLt(a, b) ==
    IF a = NaN \/ b = NaN THEN FALSE
    ELSE IF IsFinite(a) /\ IsFinite(b) THEN a[1] * b[2] < b[1] * a[2]
    ELSE IF ~IsFinite(a) /\ ~IsFinite(b) THEN a[1] < b[1]
    ELSE IF IsFinite(a) THEN b[1] > 0
    ELSE a[1] < 0

\* numpy.sqrt(float(n)) for the squared lengths the edges below produce.
Sqrt(n) == CHOOSE r \in 0..n : r * r = n

\* numpy.arctan2(dy, dx): the direction of (dx, dy).
ArcTan2(dy, dx) ==
    LET g == GCD(Abs(dx), Abs(dy)) IN <<dx \div g, dy \div g>>

Cos(theta) == Norm(theta[1], Sqrt(theta[1] * theta[1] + theta[2] * theta[2]))

Sin(theta) == Norm(theta[2], Sqrt(theta[1] * theta[1] + theta[2] * theta[2]))

\* ------------------------------------------------------------------ inputs
\* Candidate edges as (pos[e[0]], pos[e[1]]): a self-positioned (zero-length)
\* edge, an exactly horizontal one, an exactly vertical one, a general one
\* (length 50) and a short general one pointing down and left (length 5).
EdgeChoices ==
    { <<<<0, 0>>, <<0, 0>>>>,
      <<<<0, 0>>, <<100, 0>>>>,
      <<<<0, 0>>, <<0, 50>>>>,
      <<<<0, 0>>, <<30, 40>>>>,
      <<<<3, 4>>, <<0, 0>>>> }

EdgeLists == UNION { [1..n -> EdgeChoices] : n \in 0..MaxEdges }

\* width: k distinct line widths 1, 2, .., k (a scalar width is the case k = 1).
WidthLists == { [i \in 1..k |-> i] : k \in 1..MaxWidths }

\* apos_on_edge: at the tip, the default 0.15, at the source.
AposChoices == { Num(0), <<3, 20>>, Num(1) }

\* edge_color as the code inspects it: a string, or a list of a given length
\* whose items are all colour names, all rgb(a) tuples, all numbers, or a mix
\* of strings and non-strings.
ColorKinds == {"names", "tuples", "numbers", "mixed"}

EdgeColorInputs ==
    { [kind |-> "string", len |-> 1] }
    \cup { [kind |-> k, len |-> n] : k \in ColorKinds \ {"mixed"}, n \in 0..(MaxEdges + 1) }
    \cup { [kind |-> "mixed", len |-> n] : n \in 2..(MaxEdges + 1) }

CmapInputs == {"None", "Colormap", "other"}

None == [kind |-> "None"]

\* ------------------------------------------------------------------- state
VARIABLES
    pc,               \* position in draw_networkx_edges
    exc,              \* the exception that left the function, or "none"
    ret,              \* the returned value once pc = "done"
    directed,         \* G.is_directed()  (these four are "unset" until the
    arrows,           \* parameter arrows    line that first reads them)
    arrowheads,       \* parameter arrowheads
    apos_on_edge,     \* parameter apos_on_edge
    edge_pos,         \* positions of the edges of edgelist
    lw,               \* line widths
    edge_color,       \* parameter edge_color (set when it is inspected)
    edge_colors,      \* "unset", "single", "names", "tuples" or "None"
    canvas,           \* collections handed to ax.add_collection, in order
    idx,              \* next edge of the first pass (1-based)
    p,                \* the local p (0 stands for unassigned, before line 243)
    a_pos, orthoslope, thetas, lengths,
    vertex1, vertex2, \* (vertex1_x[i], vertex1_y[i]) and (vertex2_x[i], vertex2_y[i])
    arrow_collection, \* None, or the collection built at line 378 or 390
    corners           \* argument of ax.update_datalim

vars == <<pc, exc, ret, directed, arrows, arrowheads, apos_on_edge, edge_pos, lw,
          edge_color, edge_colors, canvas, idx, p, a_pos, orthoslope, thetas,
          lengths, vertex1, vertex2, arrow_collection, corners>>

Init ==
    /\ pc = "entry"
    /\ exc = "none"
    /\ ret = "unset"
    /\ directed = "unset"
    /\ arrows = "unset"
    /\ arrowheads = "unset"
    /\ apos_on_edge = "unset"
    /\ edge_pos \in EdgeLists
    /\ lw \in WidthLists
    /\ edge_color = [kind |-> "unset", len |-> 0]
    /\ edge_colors = "unset"
    /\ canvas = <<>>
    /\ idx = 0
    /\ p = Num(0)
    /\ a_pos = <<>>
    /\ orthoslope = <<>>
    /\ thetas = <<>>
    /\ lengths = <<>>
    /\ vertex1 = <<>>
    /\ vertex2 = <<>>
    /\ arrow_collection = None
    /\ corners = <<>>

Raise(e) == pc' = "raised" /\ exc' = e

\* lines 143-158: an empty edge list returns None before anything is drawn.
Entry ==
    /\ pc = "entry"
    /\ IF Len(edge_pos) = 0
       THEN pc' = "done" /\ ret' = "None"
       ELSE pc' = "colors" /\ ret' = ret
    /\ UNCHANGED <<exc, directed, arrows, arrowheads, apos_on_edge, edge_pos, lw,
                   edge_color, edge_colors, canvas, idx, p, a_pos, orthoslope,
                   thetas, lengths, vertex1, vertex2, arrow_collection, corners>>

\* ColorCheck without the final raise: any other edge_color is taken as one
\* colour.
ColorCheckLenient(ec, m) ==
    IF ec.kind # "string" /\ ec.len = m
    THEN CASE ec.kind = "names" -> "names"
           [] ec.kind = "tuples" -> "tuples"
           [] ec.kind = "numbers" -> "None"
           [] OTHER -> "ValueError: names or numbers"
    ELSE IF ec.kind = "string" THEN "single"
    ELSE "to_rgba_list"

\* lines 160-184: what the colour validation decides for edge_color ec and m
\* edges: the value of edge_colors ("names", "tuples", "None", "single"),
\* "to_rgba_list" when a one-item list is handed to colorConverter.to_rgba as
\* a single colour, or the ValueError raised.
ColorCheck(ec, m) ==
    IF ec.kind # "string" /\ ec.len = m
    THEN CASE ec.kind = "names" -> "names"
           [] ec.kind = "tuples" -> "tuples"
           [] ec.kind = "numbers" -> "None"
           [] OTHER -> "ValueError: names or numbers"
    ELSE IF ec.kind = "string" THEN "single"
    ELSE IF ec.len = 1 THEN "to_rgba_list"
    ELSE "ValueError: single color or m colors"

\* lines 160-184.  colorConverter.to_rgba is library code: on a one-item list
\* it either returns a colour or raises its own ValueError.
CheckColors ==
    /\ pc = "colors"
    /\ \E ec \in EdgeColorInputs :
         LET r == ColorCheck(ec, Len(edge_pos)) IN
         /\ edge_color' = ec
         /\ \/ /\ r \in {"names", "tuples", "None", "single"}
               /\ edge_colors' = r
               /\ pc' = "edge_collection"
               /\ exc' = exc
            \/ /\ r = "to_rgba_list"
               /\ \/ edge_colors' = "single" /\ pc' = "edge_collection" /\ exc' = exc
                  \/ edge_colors' = edge_colors /\ Raise("ValueError: to_rgba")
            \/ /\ r \in {"ValueError: names or numbers",
                         "ValueError: single color or m colors"}
               /\ edge_colors' = edge_colors
               /\ Raise(r)
    /\ UNCHANGED <<ret, directed, arrows, arrowheads, apos_on_edge, edge_pos, lw,
                   canvas, idx, p, a_pos, orthoslope, thetas, lengths, vertex1,
                   vertex2, arrow_collection, corners>>

\* lines 186-206: the edge collection is created and added to the axes.
DrawEdgeCollection ==
    /\ pc = "edge_collection"
    /\ canvas' = Append(canvas, [kind |-> "LineCollection",
                                 segments |-> edge_pos,
                                 colors |-> edge_colors,
                                 linewidths |-> lw])
    /\ pc' = "colormap"
    /\ UNCHANGED <<exc, ret, directed, arrows, arrowheads, apos_on_edge, edge_pos,
                   lw, edge_color, edge_colors, idx, p, a_pos, orthoslope, thetas,
                   lengths, vertex1, vertex2, arrow_collection, corners>>

\* lines 208-218: numeric colours are mapped through edge_cmap, which is
\* asserted to be a Colormap when given.
ColorMap ==
    /\ pc = "colormap"
    /\ \E edge_cmap \in CmapInputs :
         IF edge_colors = "None" /\ edge_cmap = "other"
         THEN Raise("AssertionError")
         ELSE pc' = "arrows" /\ exc' = exc
    /\ UNCHANGED <<ret, directed, arrows, arrowheads, apos_on_edge, edge_pos, lw,
                   edge_color, edge_colors, canvas, idx, p, a_pos, orthoslope,
                   thetas, lengths, vertex1, vertex2, arrow_collection, corners>>

\* lines 227-243: the arrow branch is entered for a directed graph with
\* arrows; its lists start empty and p starts at 1.0 - 0.25.
ArrowsTest ==
    /\ pc = "arrows"
    /\ \E dir \in BOOLEAN, arr \in BOOLEAN, ah \in BOOLEAN :
         /\ directed' = dir
         /\ arrows' = arr
         /\ IF dir /\ arr
            THEN /\ pc' = "first_pass"
                 /\ idx' = 1
                 /\ p' = <<3, 4>>
                 /\ arrowheads' = ah
            ELSE /\ pc' = "update_view"
                 /\ UNCHANGED <<idx, p, arrowheads>>
    /\ UNCHANGED <<exc, ret, apos_on_edge, edge_pos, lw, edge_color, edge_colors,
                   canvas, a_pos, orthoslope, thetas, lengths, vertex1, vertex2,
                   arrow_collection, corners>>

\* PFraction with the sign of the correction flipped.
PFractionPlus(d) ==
    RAdd(Num(1), RDiv(<<1, 4>>, RDiv(RMul(Num(2), d), Num(100))))

\* line 257: p = 1.0 - 0.25 / (2*d/100.0); for d = 0 numpy gives -inf.
PFraction(d) ==
    RSub(Num(1), RDiv(<<1, 4>>, RDiv(RMul(Num(2), d), Num(100))))

\* lines 297-302: the slope of the orthogonal line, (-1.0 * dx2) / dy2, with
\* dy2 replaced by 0.00000000000001 when it is 0.  The value is n / d, or
\* n / 1e-14 when tiny.
OrthoSlope(xa, ya, x2, y2) ==
    LET dx2 == RSub(x2, xa)
        dy2 == RSub(y2, ya)
    IN [n |-> RNeg(dx2), d |-> dy2, tiny |-> (dy2 = Num(0))]

\* lines 245-302: one iteration of the first pass for the edge e = (src, dst).
\* skip: the continue of line 260.  trig: the else branch of line 267 ran
\* (it runs whenever dy # 0, so also for a vertical edge, whose assignments
\* of lines 262-263 it overwrites).
EdgeGeometry(e, ah) ==
    LET x1 == e[1][1]
        y1 == e[1][2]
        x2 == e[2][1]
        y2 == e[2][2]
        dx == x2 - x1
        dy == y2 - y1
        d  == Num(Sqrt(dx * dx + dy * dy))
        pp == PFraction(d)
        theta == ArcTan2(dy, dx)
        along == RMul(pp, d)
        along2 == RMul(RMul(pp, pp), d)
        tip2 == RMul(<<21, 20>>, along2)
        xa == IF dy = 0 THEN RAdd(RMul(Num(dx), pp), Num(x1))
              ELSE IF ah THEN RAdd(RMul(along, Cos(theta)), Num(x1))
              ELSE RAdd(RMul(along2, Cos(theta)), Num(x1))
        ya == IF dy = 0 THEN Num(y2)
              ELSE IF ah THEN RAdd(RMul(along, Sin(theta)), Num(y1))
              ELSE RAdd(RMul(along2, Sin(theta)), Num(y1))
        x2e == IF dy # 0 /\ ~ah THEN RAdd(RMul(tip2, Cos(theta)), Num(x1)) ELSE Num(x2)
        y2e == IF dy # 0 /\ ~ah THEN RAdd(RMul(tip2, Sin(theta)), Num(y1)) ELSE Num(y2)
    IN IF d = Num(0)
       THEN [d |-> d, p |-> pp, skip |-> TRUE, trig |-> FALSE, theta |-> <<0, 0>>,
             seg |-> <<>>, slope |-> <<>>]
       ELSE [d |-> d, p |-> pp, skip |-> FALSE, trig |-> (dy # 0), theta |-> theta,
             seg |-> <<<<xa, ya>>, <<x2e, y2e>>>>,
             slope |-> OrthoSlope(xa, ya, x2e, y2e)]

\* lines 244-302: the first pass handles the next edge of edge_pos.
FirstPassEdge ==
    /\ pc = "first_pass"
    /\ idx <= Len(edge_pos)
    /\ LET g == EdgeGeometry(edge_pos[idx], arrowheads) IN
         /\ lengths' = Append(lengths, g.d)
         /\ p' = g.p
         /\ a_pos' = IF g.skip THEN a_pos ELSE Append(a_pos, g.seg)
         /\ thetas' = IF g.trig THEN Append(thetas, g.theta) ELSE thetas
         /\ orthoslope' = IF g.skip THEN orthoslope ELSE Append(orthoslope, g.slope)
    /\ idx' = idx + 1
    /\ UNCHANGED <<pc, exc, ret, directed, arrows, arrowheads, apos_on_edge,
                   edge_pos, lw, edge_color, edge_colors, canvas, vertex1, vertex2,
                   arrow_collection, corners>>

\* lines 327, 337-340: dist_to_use for the arrow at 1-based position i of
\* a_pos, from the widths ws and the value pp that p holds after the first
\* pass: pp * dist[i] while widths last, pp * dist[i % len(dist)] after.
WidthIndex(i, n) == IF i > n THEN ((i - 1) % n) + 1 ELSE i

DistToUse(i, ws, pp) == RMul(pp, RMul(Num(2), Num(ws[WidthIndex(i, Len(ws))])))

\* 1 + orthoslope < 0.
OnePlusNegative(os) ==
    IF os.tiny THEN os.n[1] < 0
    ELSE RLt(RAdd(Num(1), RDiv(os.n, os.d)), Num(0))

\* lines 342-345: arrow_width is numpy.sqrt(dist_to_use**2 / (1 + orthoslope)),
\* or half the root of the negated quotient when the quotient is negative.
\* The root is kept as its operands.
ArrowWidth(dtu, os) ==
    [dist_to_use |-> dtu, orthoslope |-> os,
     half |-> (dtu # NaN /\ dtu # Num(0) /\ OnePlusNegative(os))]

\* lines 347-357: a wing vertex, x = xa + sign * arrow_width and
\* y = ya + orthoslope * (x - xa).
Wing(seg, os, aw, sign) ==
    [xa |-> seg[1][1], ya |-> seg[1][2], sign |-> sign, arrow_width |-> aw,
     orthoslope |-> os]

\* lines 306-357: the second pass computes the two wing vertices of every
\* entry of a_pos.
SecondPass ==
    /\ pc = "first_pass"
    /\ idx > Len(edge_pos)
    /\ arrowheads = TRUE
    /\ vertex1' = [i \in 1..Len(a_pos) |->
                     Wing(a_pos[i], orthoslope[i],
                          ArrowWidth(DistToUse(i, lw, p), orthoslope[i]), 1)]
    /\ vertex2' = [i \in 1..Len(a_pos) |->
                     Wing(a_pos[i], orthoslope[i],
                          ArrowWidth(DistToUse(i, lw, p), orthoslope[i]), -1)]
    /\ pc' = "a_verts"
    /\ UNCHANGED <<exc, ret, directed, arrows, arrowheads, apos_on_edge, edge_pos,
                   lw, edge_color, edge_colors, canvas, idx, p, a_pos, orthoslope,
                   thetas, lengths, arrow_collection, corners>>

\* lines 367-369: apos_on_edge*lengths[i]*cos(thetas[i]) and the same with sin.
Shift(i, apos) ==
    <<RMul(RMul(apos, lengths[i]), Cos(thetas[i])),
      RMul(RMul(apos, lengths[i]), Sin(thetas[i]))>>

\* lines 367-369: the triangle of entry i: both wings and (x2, y2) of a_pos[i],
\* each moved back by Shift(i).
Triangle(i, apos) ==
    <<[wing |-> vertex1[i], shift |-> Shift(i, apos)],
      [wing |-> vertex2[i], shift |-> Shift(i, apos)],
      <<RSub(a_pos[i][2][1], Shift(i, apos)[1]),
        RSub(a_pos[i][2][2], Shift(i, apos)[2])>>>>

\* The comprehension of lines 367-370 indexes thetas and lengths with every
\* index of a_pos.
VertsIndexError ==
    \E i \in 1..Len(a_pos) : i > Len(thetas) \/ i > Len(lengths)

\* lines 367-400, triangular mode: a_verts, the PolyCollection, and its
\* addition to the axes; an index out of range raises IndexError.
BuildVerts ==
    /\ pc = "a_verts"
    /\ \E apos \in AposChoices :
         /\ apos_on_edge' = apos
         /\ IF VertsIndexError
            THEN /\ Raise("IndexError")
                 /\ UNCHANGED <<arrow_collection, canvas>>
            ELSE /\ arrow_collection' =
                      [kind |-> "PolyCollection",
                       shapes |-> [i \in 1..Len(a_pos) |-> Triangle(i, apos)],
                       colors |-> edge_colors,
                       linewidths |-> <<>>]
                 /\ canvas' = Append(canvas, arrow_collection')
                 /\ pc' = "update_view"
                 /\ exc' = exc
    /\ UNCHANGED <<ret, directed, arrows, arrowheads, edge_pos, lw,
                   edge_color, edge_colors, idx, p, a_pos, orthoslope, thetas,
                   lengths, vertex1, vertex2, corners>>

\* lines 384-400, rectangular mode: the LineCollection of a_pos, stroked with
\* ten times the line widths, and its addition to the axes.
RectCollection ==
    /\ pc = "first_pass"
    /\ idx > Len(edge_pos)
    /\ arrowheads = FALSE
    /\ arrow_collection' = [kind |-> "LineCollection",
                            shapes |-> a_pos,
                            colors |-> edge_colors,
                            linewidths |-> [i \in 1..Len(lw) |-> 10 * lw[i]]]
    /\ canvas' = Append(canvas, arrow_collection')
    /\ pc' = "update_view"
    /\ UNCHANGED <<exc, ret, directed, arrows, arrowheads, apos_on_edge, edge_pos,
                   lw, edge_color, edge_colors, idx, p, a_pos, orthoslope, thetas,
                   lengths, vertex1, vertex2, corners>>

SetMin(S) == CHOOSE x \in S : \A y \in S : x <= y

SetMax(S) == CHOOSE x \in S : \A y \in S : x >= y

\* lines 403-411: the bounding box of all edge endpoints, padded by 5 percent
\* of its width and height on each side.
Corners(ep) ==
    LET xs == { ep[i][k][1] : i \in 1..Len(ep), k \in 1..2 }
        ys == { ep[i][k][2] : i \in 1..Len(ep), k \in 1..2 }
        padx == RMul(<<1, 20>>, Num(SetMax(xs) - SetMin(xs)))
        pady == RMul(<<1, 20>>, Num(SetMax(ys) - SetMin(ys)))
    IN <<<<RSub(Num(SetMin(xs)), padx), RSub(Num(SetMin(ys)), pady)>>,
         <<RAdd(Num(SetMax(xs)), padx), RAdd(Num(SetMax(ys)), pady)>>>>

\* lines 403-415: the view is updated and the edge collection returned.
UpdateView ==
    /\ pc = "update_view"
    /\ corners' = Corners(edge_pos)
    /\ ret' = "edge_collection"
    /\ pc' = "done"
    /\ UNCHANGED <<exc, directed, arrows, arrowheads, apos_on_edge, edge_pos, lw,
                   edge_color, edge_colors, canvas, idx, p, a_pos, orthoslope,
                   thetas, lengths, vertex1, vertex2, arrow_collection>>

Next ==
    \/ Entry
    \/ CheckColors
    \/ DrawEdgeCollection
    \/ ColorMap
    \/ ArrowsTest
    \/ FirstPassEdge
    \/ SecondPass
    \/ BuildVerts
    \/ RectCollection
    \/ UpdateView

Spec == Init /\ [][Next]_vars

\* ------------------------------------------------------------ claim helpers
NonZeroAt(i) == edge_pos[i][1] # edge_pos[i][2]

NonZeroEdges == { i \in 1..Len(edge_pos) : NonZeroAt(i) }

\* The edge-list position of the j-th edge of non-zero length.
EdgeOfArrow(j) ==
    CHOOSE i \in NonZeroEdges : Cardinality({ k \in NonZeroEdges : k <= i }) = j

\* idx is set on entry to the arrow branch of line 227 and never before.
ArrowBranchEntered == idx >= 1

Ended == pc \in {"done", "raised"}

Last(q) == q[Len(q)]

\* 1 - 0.25/(2*d/100) for a length d > 0, written as 1 - 25/(2d).
ClaimP(d) == RSub(Num(1), RDiv(Num(25), RMul(Num(2), d)))

\* src + f * (dst - src) for the edge e.
PointAt(e, f) ==
    <<RAdd(Num(e[1][1]), RMul(f, Num(e[2][1] - e[1][1]))),
      RAdd(Num(e[1][2]), RMul(f, Num(e[2][2] - e[1][2])))>>

IsList(ec) == ec.kind \in ColorKinds

\* ----------------------------------------------------------------- claims
\* C1: for a directed graph with arrows enabled, the call produces an arrow
\* collection holding one shape per non-zero-length edge and none for a
\* zero-length edge: 3-vertex polygons in triangular mode, two-point line
\* segments in rectangular mode.
C1_ArrowCount ==
    (ArrowBranchEntered /\ Ended) =>
        /\ arrow_collection.kind =
             (IF arrowheads = TRUE THEN "PolyCollection" ELSE "LineCollection")
        /\ Len(arrow_collection.shapes) = Cardinality(NonZeroEdges)
        /\ \A j \in 1..Len(arrow_collection.shapes) :
             Len(arrow_collection.shapes[j]) = (IF arrowheads = TRUE THEN 3 ELSE 2)

\* C2: once the colours are valid and the arrow branch is entered, every index
\* the second pass and the a_verts comprehension use into a_pos, orthoslope,
\* thetas and lengths is in range, and the call never raises.
C2_GeometryNeverRaises ==
    ArrowBranchEntered =>
        /\ pc # "raised"
        /\ (pc = "a_verts" =>
              /\ Len(orthoslope) = Len(a_pos)
              /\ Len(thetas) >= Len(a_pos)
              /\ Len(lengths) >= Len(a_pos))

\* C3: no partial effect: when an exception leaves the function, nothing has
\* been added to the canvas.
C3_NoPartialEffect ==
    pc = "raised" => canvas = <<>>

\* The edge the first pass is about to handle is exactly horizontal or exactly
\* vertical and has non-zero length.
AxisAlignedNext ==
    /\ pc = "first_pass"
    /\ idx <= Len(edge_pos)
    /\ NonZeroAt(idx)
    /\ \/ edge_pos[idx][1][1] = edge_pos[idx][2][1]
       \/ edge_pos[idx][1][2] = edge_pos[idx][2][2]

\* (x1 + p*dx, y2) for a horizontal edge e, (x2, y1 + p*dy) for a vertical one.
SpecialisedShaftEnd(e) ==
    LET dx == e[2][1] - e[1][1]
        dy == e[2][2] - e[1][2]
        pe == ClaimP(Num(Abs(dx) + Abs(dy)))
    IN IF dy = 0
       THEN <<RAdd(Num(e[1][1]), RMul(pe, Num(dx))), Num(e[2][2])>>
       ELSE <<Num(e[2][1]), RAdd(Num(e[1][2]), RMul(pe, Num(dy)))>>

\* C4: in triangular mode the first pass gives an exactly horizontal or exactly
\* vertical non-zero edge the shaft end of the specialised formula and does
\* not run the trigonometric branch for it, so no angle is recorded.
C4_AxisAlignedSpecialised ==
    [][(AxisAlignedNext /\ arrowheads = TRUE) =>
          /\ thetas' = thetas
          /\ Last(a_pos')[1] = SpecialisedShaftEnd(edge_pos[idx])]_vars

\* C5: in triangular mode the tip vertex of the triangle of every non-zero
\* edge is dst - apos_on_edge * (dst - src) of that same edge.
C5_TipAtFraction ==
    arrow_collection.kind = "PolyCollection" =>
        \A j \in 1..Len(arrow_collection.shapes) :
            arrow_collection.shapes[j][3] =
                PointAt(edge_pos[EdgeOfArrow(j)], RSub(Num(1), apos_on_edge))

WrongLengthList ==
    IsList(edge_color) /\ edge_color.len # Len(edge_pos)

LengthError == "ValueError: single color or m colors"

C8_RectangularStub ==
    arrow_collection.kind = "LineCollection" =>
        /\ arrow_collection.linewidths = [i \in 1..Len(lw) |-> 10 * lw[i]]
        /\ \A j \in 1..Len(arrow_collection.shapes) :
             LET e == edge_pos[EdgeOfArrow(j)]
                 pe == ClaimP(lengths[EdgeOfArrow(j)])
             IN arrow_collection.shapes[j] =
                  <<PointAt(e, RMul(pe, pe)),
                    PointAt(e, RMul(<<21, 20>>, RMul(pe, pe)))>>

\* C9: the wing offset of every arrowhead is its width times 2 times the p of
\* that same edge (the width being the one the second pass picks for it), so
\* it does not depend on the other edges of the list.
C9_WingUsesOwnP ==
    pc = "a_verts" =>
        \A j \in 1..Len(vertex1) :
            vertex1[j].arrow_width.dist_to_use =
                RMul(ClaimP(lengths[EdgeOfArrow(j)]),
                     RMul(Num(2), Num(lw[WidthIndex(j, Len(lw))])))

\* The first pass has handled at least one edge and the last one it handled
\* has non-zero length; p is then the fraction computed for that edge.
LastHandledNonZero ==
    /\ Len(lengths) >= 1
    /\ Last(lengths) # Num(0)

\* C10 as stated: for every non-zero-length edge 0 <= p < 1.
C10_FractionInUnitInterval ==
    LastHandledNonZero => (~RLt(p, Num(0)) /\ RLt(p, Num(1)))

\* C10 amended: for every non-zero-length edge p < 1, and in triangular mode
\* the shaft end is src + p * (dst - src), strictly short of the destination;
\* p >= 0 holds exactly for the edges of length at least 12.5, so for a
\* shorter edge the shaft end lies behind the source.
C10_FractionBelowOne ==
    LastHandledNonZero =>
        /\ RLt(p, Num(1))
        /\ (RLt(p, Num(0)) <=> RLt(Last(lengths), <<25, 2>>))
        /\ (arrowheads = TRUE =>
              Last(a_pos)[1] = PointAt(edge_pos[Len(lengths)], p))

C10_Witness ==
    /\ LastHandledNonZero
    /\ arrowheads = TRUE
    /\ RLt(Last(lengths), <<25, 2>>)
    /\ RLt(p, Num(0))
    /\ \E i \in 1..Len(lengths) : ~RLt(lengths[i], <<25, 2>>)

====
